---- MODULE Spec2Model ----
(***************************************************************************)
(* Model of the two Streamlit dashboards of Cubos-Olab:                    *)
(*   src/act1.py        "Analisis OLAP de Ventas - CSV"                    *)
(*   src/5preguntas.py  "Visualizacion de Respuestas OLAP"                 *)
(*                                                                         *)
(* A Streamlit script is run top to bottom once when the page is opened    *)
(* and once more after every widget change; the table returned by the      *)
(* st.cache_data loader is kept between the runs.  One action of the model *)
(* is one such run: the first run (with the load) or a widget change with  *)
(* the rerun it triggers.  A run stops at the first st.stop() or uncaught  *)
(* exception; what was rendered before stays on the page.                  *)
(*                                                                         *)
(* A DataFrame is a record [cols, rows]: its column names and the bag of   *)
(* its rows (a function row -> multiplicity).  Row order is read by no     *)
(* computation of the scripts except to order the options of a widget, and *)
(* every option can be selected, so the bag loses nothing.  A row is a     *)
(* function from column names to cell values.  A missing cell (NaN) is the *)
(* value NaN.  Ventas are integers; sums, means and ratios are exact       *)
(* (rationals are kept as reduced fractions), so floating point rounding   *)
(* is not modelled.                                                        *)
(***************************************************************************)
EXTENDS Integers, Sequences, FiniteSets, TLC

VARIABLES script, file, df, widgets, shown, reruns

vars == <<script, file, df, widgets, shown, reruns>>

(***************************************************************************)
(* Bounds of the model.                                                    *)
(***************************************************************************)
MaxRows == 2
MaxReruns == 1

(***************************************************************************)
(* Cell values of data/ventas.csv the model draws from.                    *)
(***************************************************************************)
NaN == "NaN"
None == "None"

Fechas ==
    { [y |-> 2023, m |-> 5, d |-> 10],
      [y |-> 2024, m |-> 2, d |-> 20],
      [y |-> 2024, m |-> 5, d |-> 14] }

Productos == {"A", "B", NaN}
Regiones == {"Norte", "Sur"}

\* The amount of a sale in the model: one price per region.
Precio(g) == IF g = "Norte" THEN 1 ELSE 2

required_cols == {"Fecha", "Producto", "Región", "Ventas"}

Row(f, p, g, v) ==
    [c \in required_cols |->
        CASE c = "Fecha" -> f
          [] c = "Producto" -> p
          [] c = "Región" -> g
          [] c = "Ventas" -> v]

\* The rows a file with all the columns can hold.
Rows == { Row(f, p, g, Precio(g)) : f \in Fechas, p \in Productos, g \in Regiones }

(***************************************************************************)
(* Bags of rows.                                                           *)
(***************************************************************************)
EmptyBag == [x \in {} |-> 0]

BagAdd(b, r, n) ==
    IF n = 0 THEN b
    ELSE [x \in (DOMAIN b) \cup {r} |->
            (IF x \in DOMAIN b THEN b[x] ELSE 0) + (IF x = r THEN n ELSE 0)]

RECURSIVE BagsUpTo(_, _)
BagsUpTo(D, n) ==
    IF n = 0 THEN {EmptyBag}
    ELSE LET prev == BagsUpTo(D, n - 1)
         IN  prev \cup { BagAdd(b, r, 1) : b \in prev, r \in D }

RECURSIVE BagSize(_)
BagSize(b) ==
    IF DOMAIN b = {} THEN 0
    ELSE LET r == CHOOSE x \in DOMAIN b : TRUE
         IN  b[r] + BagSize([x \in (DOMAIN b) \ {r} |-> b[x]])

\* df[mask]: the rows of b that are in S, as a new bag.
Restrict(b, S) == [x \in (DOMAIN b) \cap S |-> b[x]]

\* The number of rows of bag b that are in S.
RECURSIVE CountIn(_, _)
CountIn(b, S) ==
    IF S = {} THEN 0
    ELSE LET r == CHOOSE x \in S : TRUE
         IN  (IF r \in DOMAIN b THEN b[r] ELSE 0) + CountIn(b, S \ {r})

\* Series.sum() of column c over the rows of b that are in S.
RECURSIVE SumIn(_, _, _)
SumIn(b, c, S) ==
    IF S = {} THEN 0
    ELSE LET r == CHOOSE x \in S : TRUE
         IN  (IF r \in DOMAIN b THEN b[r] * r[c] ELSE 0) + SumIn(b, c, S \ {r})

(***************************************************************************)
(* Numbers that need not be integers (a mean, a ratio) are fractions       *)
(* [num, den], reduced, den > 0.  den = 0 is what numpy gives for a        *)
(* division by zero: nan (num = 0) or +-inf (num = +-1).                   *)
(***************************************************************************)
Abs(n) == IF n < 0 THEN -n ELSE n

RECURSIVE GCD(_, _)
GCD(a, b) == IF b = 0 THEN a ELSE GCD(b, a % b)

Frac(n, d) ==
    IF d = 0 THEN [num |-> IF n > 0 THEN 1 ELSE IF n < 0 THEN -1 ELSE 0, den |-> 0]
    ELSE LET g == GCD(Abs(n), Abs(d))
             sg == IF d < 0 THEN -1 ELSE 1
         IN  [num |-> sg * (n \div g), den |-> sg * (d \div g)]

nan == Frac(0, 0)
IsNaN(q) == q.den = 0 /\ q.num = 0

FracSub(p, q) ==
    IF p.den = 0 \/ q.den = 0 THEN nan
    ELSE Frac(p.num * q.den - q.num * p.den, p.den * q.den)

FracDiv(p, q) ==
    IF p.den = 0 \/ q.den = 0 THEN nan
    ELSE Frac(p.num * q.den, p.den * q.num)

FracMul(p, q) ==
    IF p.den = 0 \/ q.den = 0 THEN nan
    ELSE Frac(p.num * q.num, p.den * q.den)

(***************************************************************************)
(* Calendar fields derived from Fecha at load time.                        *)
(***************************************************************************)
\* Series.dt.quarter
quarter(f) == ((f.m - 1) \div 3) + 1

\* 'T' + quarter.astype(str)
Trimestre(f) == <<"T1", "T2", "T3", "T4">>[quarter(f)]

\* Series.dt.month_name(locale='Spanish')
month_name(f) ==
    <<"Enero", "Febrero", "Marzo", "Abril", "Mayo", "Junio", "Julio", "Agosto",
      "Septiembre", "Octubre", "Noviembre", "Diciembre">>[f.m]

\* Day of the week of a Gregorian date, 0 = domingo.
weekday(f) ==
    LET t == <<0, 3, 2, 5, 0, 3, 5, 1, 4, 6, 2, 4>>
        yy == IF f.m < 3 THEN f.y - 1 ELSE f.y
    IN  (yy + (yy \div 4) - (yy \div 100) + (yy \div 400) + t[f.m] + f.d) % 7

\* Series.dt.day_name(locale='Spanish')
day_name(f) ==
    <<"Domingo", "Lunes", "Martes", "Miércoles", "Jueves", "Viernes",
      "Sábado">>[weekday(f) + 1]

\* A row with the column col added (df[col] = value).
WithColumn(r, col, value) ==
    [c \in (DOMAIN r) \cup {col} |-> IF c = col THEN value ELSE r[c]]

\* The bag of the images f[r] of the rows of b.
RowImages(b, f) ==
    [y \in {f[r] : r \in DOMAIN b} |-> CountIn(b, {r \in DOMAIN b : f[r] = y})]

(***************************************************************************)
(* Rendered elements.  A run's output is the sequence of the elements it   *)
(* rendered; an "error" element is st.error followed by st.stop(), an      *)
(* "exception" element is the traceback Streamlit shows for an uncaught    *)
(* exception.  Both end the run.                                           *)
(***************************************************************************)
El(kind, id, data) == [kind |-> kind, id |-> id, data |-> data]

Halted(out) == Len(out) > 0 /\ out[Len(out)].kind \in {"error", "exception"}

\* The next statement of the script: it runs only if the run has not stopped.
Emit(out, e) == IF Halted(out) THEN out ELSE Append(out, e)

(***************************************************************************)
(* data/ventas.csv and the loaders.  A file is [readable, spanish, cols,   *)
(* rows]: whether pd.read_csv can read and parse it, whether the 'Spanish' *)
(* locale asked of month_name/day_name exists on the host, its header and  *)
(* its rows.                                                               *)
(***************************************************************************)
Files ==
    { [readable |-> TRUE, spanish |-> TRUE, cols |-> cs, rows |-> b] :
        cs \in {required_cols}, b \in BagsUpTo(Rows, MaxRows) }
    \cup
    { [readable |-> rd, spanish |-> sp, cols |-> cs, rows |-> EmptyBag] :
        rd \in BOOLEAN, sp \in BOOLEAN, cs \in SUBSET required_cols }

Frame(cols, rows) == [cols |-> cols, rows |-> rows]

\* pd.read_csv('data/ventas.csv', parse_dates=['Fecha']) raises when the file
\* cannot be read or has no column 'Fecha' to parse.
read_csv_raises(f) == ~f.readable \/ "Fecha" \notin f.cols

LoadError(where) == El("error", where, [type |-> "LoadError", missing |-> {}])
SchemaError(where, missing) ==
    El("error", where, [type |-> "SchemaError", missing |-> missing])

\* act1.py, lines 27-30.
DeriveAct1(r) ==
    WithColumn(WithColumn(WithColumn(WithColumn(r,
        "Año", r["Fecha"].y),
        "Trimestre", Trimestre(r["Fecha"])),
        "Mes", month_name(r["Fecha"])),
        "DíaSemana", day_name(r["Fecha"]))

\* act1.py load_csv_data: [ok, df] or [ok, error], error being the element
\* rendered before st.stop().
load_csv_data(f) ==
    IF read_csv_raises(f)
    THEN [ok |-> FALSE, error |-> LoadError("load_csv_data")]
    ELSE LET missing == required_cols \ f.cols
         IN  IF missing # {}
             THEN [ok |-> FALSE, error |-> SchemaError("load_csv_data", missing)]
             ELSE IF ~f.spanish
             THEN [ok |-> FALSE, error |-> LoadError("load_csv_data")]
             ELSE [ok |-> TRUE,
                   df |-> Frame(f.cols \cup {"Año", "Trimestre", "Mes", "DíaSemana"},
                                RowImages(f.rows, [r \in DOMAIN f.rows |-> DeriveAct1(r)]))]

\* 5preguntas.py, lines 20-22.
DerivePreguntas(r) ==
    WithColumn(WithColumn(WithColumn(r,
        "Año", r["Fecha"].y),
        "Trimestre", Trimestre(r["Fecha"])),
        "Mes", month_name(r["Fecha"]))

\* Faulty variant: the except branch returns an empty table instead of stopping.
load_data_default(f) ==
    IF read_csv_raises(f) \/ ~f.spanish
    THEN [ok |-> TRUE, df |-> Frame({}, EmptyBag)]
    ELSE [ok |-> TRUE,
          df |-> Frame(f.cols \cup {"Año", "Trimestre", "Mes"},
                       RowImages(f.rows, [r \in DOMAIN f.rows |-> DerivePreguntas(r)]))]

\* 5preguntas.py load_data.
load_data(f) ==
    IF read_csv_raises(f) \/ ~f.spanish
    THEN [ok |-> FALSE, error |-> LoadError("load_data")]
    ELSE [ok |-> TRUE,
          df |-> Frame(f.cols \cup {"Año", "Trimestre", "Mes"},
                       RowImages(f.rows, [r \in DOMAIN f.rows |-> DerivePreguntas(r)]))]

(***************************************************************************)
(* pandas operations the scripts use.                                      *)
(***************************************************************************)
\* A missing cell.  Only text columns hold one in the model.
IsNA(c, v) == c \in {"Producto", "Región"} /\ v = NaN

\* df[c].unique(): the values of the column, NaN included.
unique(d, c) == {r[c] : r \in DOMAIN d.rows}

\* df.groupby(c)['Ventas'].sum(): key -> sum.  groupby drops the rows whose
\* key is NaN (dropna=True is the default).
GroupSum(b, c) ==
    [k \in {r[c] : r \in {x \in DOMAIN b : ~IsNA(c, x[c])}} |->
        SumIn(b, "Ventas", {r \in DOMAIN b : r[c] = k})]

\* df.groupby([c1, c2])['Ventas'].sum(): <<key1, key2>> -> sum.
GroupSum2(b, c1, c2) ==
    [k \in {<<r[c1], r[c2]>> :
              r \in {x \in DOMAIN b : ~IsNA(c1, x[c1]) /\ ~IsNA(c2, x[c2])}} |->
        SumIn(b, "Ventas", {r \in DOMAIN b : r[c1] = k[1] /\ r[c2] = k[2]})]

\* Series.mean(): nan for an empty series.
Mean(b) == Frac(SumIn(b, "Ventas", DOMAIN b), BagSize(b))

(***************************************************************************)
(* act1.py, one run of the script after a successful load.  w holds the    *)
(* widget values: selected_year is a set, empty when the selectbox has no  *)
(* option and returns None.                                                *)
(***************************************************************************)
TimeLevels == {"Año", "Trimestre", "Mes", "DíaSemana"}
PivotRowsOptions == {"Producto", "Región"}
PivotColsOptions == {"Región", "Producto", "Trimestre"}

\* sorted(df['Año'].unique(), reverse=True)[0], the selectbox's first option.
FirstYear(d) ==
    LET ys == unique(d, "Año")
    IN  IF ys = {} THEN {} ELSE {CHOOSE y \in ys : \A z \in ys : z <= y}

DefaultsAct1(d) ==
    [selected_year |-> FirstYear(d),
     selected_products |-> unique(d, "Producto"),
     selected_regions |-> unique(d, "Región"),
     time_level |-> "Año",
     pivot_rows |-> "Producto",
     pivot_cols |-> "Región"]

\* Faulty variant: the year mask is left out of the filter.
filtered_df_no_slice(d, w) ==
    Frame(d.cols,
          Restrict(d.rows, {r \in DOMAIN d.rows :
                              /\ r["Producto"] \in w.selected_products
                              /\ r["Región"] \in w.selected_regions}))

\* Faulty variant: the product and region masks are combined with | instead of &.
filtered_df_or(d, w) ==
    Frame(d.cols,
          Restrict(d.rows, {r \in DOMAIN d.rows :
                              /\ r["Año"] \in w.selected_year
                              /\ \/ r["Producto"] \in w.selected_products
                                 \/ r["Región"] \in w.selected_regions}))

\* act1.py lines 64-68: the three masks are combined with &.
filtered_df(d, w) ==
    Frame(d.cols,
          Restrict(d.rows, {r \in DOMAIN d.rows :
                              /\ r["Año"] \in w.selected_year
                              /\ r["Producto"] \in w.selected_products
                              /\ r["Región"] \in w.selected_regions}))

total_sales(d, w) == SumIn(filtered_df(d, w).rows, "Ventas", DOMAIN filtered_df(d, w).rows)

avg_sales(d, w) == Mean(filtered_df(d, w).rows)

\* act1.py line 84, for a selected year y.
prev_year_sales(d, y) ==
    SumIn(d.rows, "Ventas", {r \in DOMAIN d.rows : r["Año"] = y - 1})

\* Faulty variant: the division is not guarded.
growth_unguarded(total, prev) ==
    FracMul(FracSub(Frac(total, prev), Frac(1, 1)), Frac(100, 1))

\* act1.py line 85.
growth(total, prev) ==
    IF prev # 0
    THEN FracMul(FracSub(Frac(total, prev), Frac(1, 1)), Frac(100, 1))
    ELSE Frac(0, 1)

\* act1.py line 97.
time_df(d, w) == GroupSum(filtered_df(d, w).rows, w.time_level)

\* pd.pivot_table(values='Ventas', index=rows, columns=cols, aggfunc='sum',
\* fill_value=0).  The rows with a NaN key are dropped; index and columns are
\* the key values left; a pair without rows is NaN after the unstack and is
\* then filled with fill_value.
pivot_table(b, rows, cols, fill_value) ==
    LET kept == {r \in DOMAIN b : ~IsNA(rows, r[rows]) /\ ~IsNA(cols, r[cols])}
    IN  [i \in {r[rows] : r \in kept} |->
          [j \in {r[cols] : r \in kept} |->
             LET cell == {r \in kept : r[rows] = i /\ r[cols] = j}
             IN  IF cell = {} THEN fill_value ELSE SumIn(b, "Ventas", cell)]]

\* lines 42-61
SidebarAct1(out, d, w) ==
    Emit(Emit(Emit(Emit(out,
        El("text", "sidebar.header", "Controles OLAP - CSV")),
        El("widget", "selected_year", w.selected_year)),
        El("widget", "selected_products", w.selected_products)),
        El("widget", "selected_regions", w.selected_regions))

\* lines 71-87.  selected_year - 1 raises TypeError when selected_year is None.
KPIsAct1(out, d, w) ==
    LET o1 == Emit(out, El("text", "title", "Análisis OLAP desde CSV"))
        o2 == Emit(o1, El("metric", "Ventas Totales", Frac(total_sales(d, w), 1)))
        o3 == Emit(o2, El("metric", "Ventas Promedio", avg_sales(d, w)))
    IN  IF w.selected_year = {}
        THEN Emit(o3, El("exception", "prev_year_sales", "TypeError"))
        ELSE LET y == CHOOSE x \in w.selected_year : TRUE
             IN  Emit(o3, El("metric", "Crecimiento Anual",
                             growth(total_sales(d, w), prev_year_sales(d, y))))

\* lines 90-104
TemporalAct1(out, d, w) ==
    Emit(Emit(Emit(out,
        El("text", "header", "Análisis Temporal")),
        El("widget", "time_level", w.time_level)),
        El("chart", "fig1", time_df(d, w)))

\* lines 107-123.  With the same column as index and columns the groupby of
\* pivot_table raises ValueError (Grouper not 1-dimensional).
MatrizAct1(out, d, w) ==
    LET o1 == Emit(out, El("text", "header", "Matriz Multidimensional"))
        o2 == Emit(o1, El("widget", "pivot_rows", w.pivot_rows))
        o3 == Emit(o2, El("widget", "pivot_cols", w.pivot_cols))
    IN  IF w.pivot_rows = w.pivot_cols
        THEN Emit(o3, El("exception", "pivot_table", "ValueError"))
        ELSE Emit(o3, El("dataframe", "pivot_table",
                         pivot_table(filtered_df(d, w).rows, w.pivot_rows, w.pivot_cols, 0)))

\* lines 126-133
ProductoAct1(out, d, w) ==
    Emit(Emit(out,
        El("text", "header", "Distribución por Producto")),
        El("chart", "fig2", GroupSum(filtered_df(d, w).rows, "Producto")))

\* lines 136-141
DownloadAct1(out, d, w) ==
    Emit(out, El("download", "ventas_filtradas", filtered_df(d, w)))

RunAct1(d, w) ==
    DownloadAct1(ProductoAct1(MatrizAct1(TemporalAct1(KPIsAct1(SidebarAct1(
        << >>, d, w), d, w), d, w), d, w), d, w), d, w)

(***************************************************************************)
(* 5preguntas.py, one run of the script after a successful load.  A column *)
(* the file lacks raises KeyError at the first statement that reads it.    *)
(***************************************************************************)
\* lines 33-57: question 1, monthly detail and yearly roll-up.
MonthlySales(d) == GroupSum2(d.rows, "Año", "Mes")
\* Faulty variant: the yearly chart takes one sale of the year (aggregation 'first')
\* instead of the sum.
AnnualSalesFirst(d) ==
    [k \in DOMAIN GroupSum(d.rows, "Año") |->
        (CHOOSE r \in DOMAIN d.rows : r["Año"] = k)["Ventas"]]

AnnualSales(d) == GroupSum(d.rows, "Año")

Pregunta1(out, d) ==
    LET o1 == Emit(out, El("text", "title", "Visualización de Respuestas OLAP"))
        o2 == Emit(o1, El("text", "header", "1. Diferencias al agrupar por año (Roll-up)"))
    IN  IF "Ventas" \notin d.cols
        THEN Emit(o2, El("exception", "fig1a", "KeyError"))
        ELSE Emit(Emit(o2,
                 El("chart", "fig1a", MonthlySales(d))),
                 El("chart", "fig1b", AnnualSales(d)))

\* Series.std() of the values xs[k], k in ks (the cells of one row of the
\* unstacked table that are not NaN), squared: ddof=1, so nan for fewer than
\* two values.
RECURSIVE SumOf(_, _)
SumOf(xs, ks) ==
    IF ks = {} THEN 0
    ELSE LET k == CHOOSE x \in ks : TRUE IN xs[k] + SumOf(xs, ks \ {k})

StdSquared(xs, ks) ==
    LET n == Cardinality(ks)
        sq == [k \in ks |-> xs[k] * xs[k]]
    IN  Frac(n * SumOf(sq, ks) - SumOf(xs, ks) * SumOf(xs, ks), n * (n - 1))

\* line 66: groupby(['Producto', 'Región']).sum().unstack().std(axis=1).
\* Producto -> std (squared) of its regional totals; the regions without a
\* sale of the product are NaN cells, which std skips.
product_consistency(d) ==
    LET sums == GroupSum2(d.rows, "Producto", "Región")
    IN  [p \in {k[1] : k \in DOMAIN sums} |->
           LET regs == {k[2] : k \in {x \in DOMAIN sums : x[1] = p}}
           IN  StdSquared([g \in regs |-> sums[<<p, g>>]], regs)]

\* sort_values('Desviación'): ascending, NaN last; equal values keep the
\* order of the group keys.
ProductoOrder == <<"A", "B">>
Index(p) == CHOOSE i \in 1..Len(ProductoOrder) : ProductoOrder[i] = p

FracLess(p, q) == p.num * q.den < q.num * p.den

Before(dev, p, q) ==
    IF IsNaN(dev[p]) # IsNaN(dev[q]) THEN IsNaN(dev[q])
    ELSE IF ~IsNaN(dev[p]) /\ FracLess(dev[p], dev[q]) THEN TRUE
    ELSE IF ~IsNaN(dev[p]) /\ FracLess(dev[q], dev[p]) THEN FALSE
    ELSE Index(p) < Index(q)

RECURSIVE SortedBy(_, _)
SortedBy(dev, ps) ==
    IF ps = {} THEN << >>
    ELSE LET first == CHOOSE p \in ps : \A q \in ps \ {p} : Before(dev, p, q)
         IN  <<[c \in {"Producto", "Desviación"} |->
                    IF c = "Producto" THEN first ELSE dev[first]]>>
               \o SortedBy(dev, ps \ {first})

sort_values(dev) == SortedBy(dev, DOMAIN dev)

\* lines 60-75: question 2.
Pregunta2(out, d) ==
    LET o1 == Emit(out, El("text", "header", "2. Productos con ventas consistentes por región (Dice)"))
    IN  IF ~({"Producto", "Región"} \subseteq d.cols)
        THEN Emit(o1, El("exception", "product_consistency", "KeyError"))
        ELSE Emit(o1, El("chart", "fig2", sort_values(product_consistency(d))))

\* lines 78-90: question 3.
q2_2024(d) ==
    Frame(d.cols, Restrict(d.rows, {r \in DOMAIN d.rows :
                                      r["Trimestre"] = "T2" /\ r["Año"] = 2024}))

Pregunta3(out, d) ==
    Emit(Emit(out,
        El("text", "header", "3. Región líder en Q2 2024 (Slice + Roll-up)")),
        El("chart", "fig3", GroupSum(q2_2024(d).rows, "Región")))

\* Faulty variant: the global totals are taken from the Q2 2024 slice.
df_all_sliced(d) == GroupSum(q2_2024(d).rows, "Mes")

\* lines 109-118
df_all(d) == GroupSum(d.rows, "Mes")

df_filtered_rows(d, w) ==
    LET byRegion == Restrict(d.rows, {r \in DOMAIN d.rows : r["Región"] = w.selected_region})
    IN  IF w.selected_product # "Todos"
        THEN Restrict(byRegion, {r \in DOMAIN byRegion : r["Producto"] = w.selected_product})
        ELSE byRegion

df_filtered(d, w) == GroupSum(df_filtered_rows(d, w), "Mes")

\* Series.sum() and Series.mean() of the Ventas column of a grouped result.
Total(t) == SumOf(t, DOMAIN t)
MeanOf(t) == Frac(Total(t), Cardinality(DOMAIN t))

\* lines 93-172: question 4.
Pregunta4(out, d, w) ==
    LET o1 == Emit(out, El("text", "header", "4. Impacto de aplicar filtros (Slice)"))
        o2 == Emit(o1, El("widget", "selected_region", w.selected_region))
        o3 == Emit(o2, El("widget", "selected_product", w.selected_product))
        o4 == Emit(o3, El("chart", "fig",
                  [all |-> df_all(d), filtered |-> df_filtered(d, w)]))
        o5 == Emit(o4, El("metric", "Ventas Totales (Filtrado)",
                  [value |-> Total(df_filtered(d, w)),
                   delta |-> FracDiv(Frac(Total(df_filtered(d, w)), 1),
                                     Frac(Total(df_all(d)), 1))]))
    IN  Emit(o5, El("metric", "Diferencia Promedio Mensual",
                  [value |-> FracSub(MeanOf(df_filtered(d, w)), MeanOf(df_all(d))),
                   delta |-> FracDiv(MeanOf(df_filtered(d, w)), MeanOf(df_all(d)))]))

\* lines 174-199: question 5 and the closing notes.
Pregunta5(out, d) ==
    Emit(Emit(Emit(out,
        El("text", "header", "5. Rendimiento de filtros y cálculo")),
        El("metric", "Tiempo de filtrado (5,000 registros)", "calc_time")),
        El("text", "Instrucciones", "notas"))

RunPreguntas(d, w) ==
    Pregunta5(Pregunta4(Pregunta3(Pregunta2(Pregunta1(<< >>, d), d), d), d, w), d)

(***************************************************************************)
(* The state machine.                                                      *)
(***************************************************************************)
NotLoaded == Frame({}, EmptyBag)
NoWidgets == [x \in {} |-> 0]

\* The element with identifier id that the last run rendered, if any.
Rendered(id) == \E i \in 1..Len(shown) : shown[i].id = id
Element(id) == shown[CHOOSE i \in 1..Len(shown) : shown[i].id = id]

Init ==
    /\ script \in {"act1", "5preguntas"}
    /\ file \in Files
    /\ df = NotLoaded
    /\ widgets = NoWidgets
    /\ shown = << >>
    /\ reruns = 0

\* Opening the page of act1.py: the load and the first run, widgets at their
\* defaults.
FirstRunAct1 ==
    /\ script = "act1"
    /\ shown = << >>
    /\ LET l == load_csv_data(file)
       IN  IF l.ok
           THEN /\ df' = l.df
                /\ widgets' = DefaultsAct1(l.df)
                /\ shown' = RunAct1(l.df, DefaultsAct1(l.df))
           ELSE /\ shown' = << l.error >>
                /\ UNCHANGED <<df, widgets>>
    /\ UNCHANGED <<script, file, reruns>>

\* A widget of act1.py is set to another of its options; the script reruns
\* with the cached table.
ChangeAct1(name, value) ==
    /\ script = "act1"
    /\ reruns < MaxReruns
    /\ Rendered(name)
    /\ widgets[name] # value
    /\ widgets' = [widgets EXCEPT ![name] = value]
    /\ shown' = RunAct1(df, widgets')
    /\ reruns' = reruns + 1
    /\ UNCHANGED <<script, file, df>>

SelectYear == \E y \in unique(df, "Año") : ChangeAct1("selected_year", {y})
SelectProducts == \E ps \in SUBSET unique(df, "Producto") : ChangeAct1("selected_products", ps)
SelectRegions == \E rs \in SUBSET unique(df, "Región") : ChangeAct1("selected_regions", rs)
SelectTimeLevel == \E t \in TimeLevels : ChangeAct1("time_level", t)
SelectPivotRows == \E c \in PivotRowsOptions : ChangeAct1("pivot_rows", c)
SelectPivotCols == \E c \in PivotColsOptions : ChangeAct1("pivot_cols", c)

\* The selectbox's first option is the region of the file's first row; None
\* when the file has no row.
DefaultsPreguntas(d) ==
    { [selected_region |-> g, selected_product |-> "Todos"] :
        g \in IF unique(d, "Región") = {} THEN {None} ELSE unique(d, "Región") }

\* Opening the page of 5preguntas.py.
FirstRunPreguntas ==
    /\ script = "5preguntas"
    /\ shown = << >>
    /\ LET l == load_data(file)
       IN  IF l.ok
           THEN /\ df' = l.df
                /\ \E w \in (IF "Región" \in l.df.cols THEN DefaultsPreguntas(l.df)
                               ELSE {NoWidgets}) :
                      /\ widgets' = w
                      /\ shown' = RunPreguntas(l.df, w)
           ELSE /\ shown' = << l.error >>
                /\ UNCHANGED <<df, widgets>>
    /\ UNCHANGED <<script, file, reruns>>

ChangePreguntas(name, value) ==
    /\ script = "5preguntas"
    /\ reruns < MaxReruns
    /\ Rendered(name)
    /\ widgets[name] # value
    /\ widgets' = [widgets EXCEPT ![name] = value]
    /\ shown' = RunPreguntas(df, widgets')
    /\ reruns' = reruns + 1
    /\ UNCHANGED <<script, file, df>>

SelectRegion == \E g \in unique(df, "Región") : ChangePreguntas("selected_region", g)
SelectProduct ==
    \E p \in {"Todos"} \cup unique(df, "Producto") : ChangePreguntas("selected_product", p)

Next ==
    \/ FirstRunAct1
    \/ FirstRunPreguntas
    \/ SelectRegion
    \/ SelectProduct
    \/ SelectYear
    \/ SelectProducts
    \/ SelectRegions
    \/ SelectTimeLevel
    \/ SelectPivotRows
    \/ SelectPivotCols

Spec == Init /\ [][Next]_vars

(***************************************************************************)
(* Properties.  The sums below are taken over the rows directly, without   *)
(* the grouping operators of the model.                                    *)
(***************************************************************************)
Loaded == df # NotLoaded

Data(id) == Element(id).data

\* Sum of Ventas over the rows of the loaded table that are in S.
Ventas(S) == SumIn(df.rows, "Ventas", S)

AllRows == DOMAIN df.rows

SelectedRows ==
    {r \in AllRows : /\ r["Año"] \in widgets.selected_year
                     /\ r["Producto"] \in widgets.selected_products
                     /\ r["Región"] \in widgets.selected_regions}

\* A grouped result g restricted to the keys in ks.
Only(g, ks) == [k \in (DOMAIN g) \cap ks |-> g[k]]

\* A result grouped by <<year, month>>, summed again by year.
ReSumByYear(m) ==
    [y \in {k[1] : k \in DOMAIN m} |-> SumOf(m, {k \in DOMAIN m : k[1] = y})]

\* C1. Roll-up consistency: the monthly totals of fig1a (grouped by year and
\* month), summed again by year, are exactly the yearly totals of fig1b: the
\* same years, the same sum for each.
C1_RollUpConsistency ==
    (script = "5preguntas" /\ Rendered("fig1a") /\ Rendered("fig1b"))
        => ReSumByYear(Data("fig1a")) = Data("fig1b")

\* A table with sales in two months of one year.
C1_Witness ==
    /\ script = "5preguntas" /\ Rendered("fig1a") /\ Rendered("fig1b")
    /\ \E k1, k2 \in DOMAIN Data("fig1a") : k1[1] = k2[1] /\ k1[2] # k2[2]

\* C2. Pivot zero-fill: whatever row and column dimension are chosen, the
\* matrix is rendered with exactly one cell for each pair of a row value and
\* a column value observed in the filtered table (in its rows that have both);
\* the cell is the sum of Ventas over the rows of the pair, 0 when there is
\* none.
C2_PivotZeroFill ==
    (script = "act1" /\ Rendered("pivot_rows") /\ Rendered("pivot_cols")) =>
        LET rows == widgets.pivot_rows
            cols == widgets.pivot_cols
            keyed == {r \in SelectedRows : r[rows] # NaN /\ r[cols] # NaN}
            rvals == {r[rows] : r \in keyed}
            cvals == {r[cols] : r \in keyed}
        IN  /\ Rendered("pivot_table")
            /\ Element("pivot_table").kind = "dataframe"
            /\ Data("pivot_table") =
                 [i \in rvals |-> [j \in cvals |->
                     Ventas({r \in SelectedRows : r[rows] = i /\ r[cols] = j})]]

\* The regions in which product p has a sale.
RegionsOf(p) == {r["Región"] : r \in {x \in AllRows : x["Producto"] = p}}

\* C3. Std edge case: no Desviación of the consistency chart is NaN, and the
\* Desviación of a product sold in exactly one region is 0.
C3_StdSingleton ==
    (script = "5preguntas" /\ Rendered("fig2")) =>
        \A i \in 1..Len(Data("fig2")) :
            LET e == Data("fig2")[i]
            IN  /\ ~IsNaN(e["Desviación"])
                /\ Cardinality(RegionsOf(e["Producto"])) = 1
                      => e["Desviación"] = Frac(0, 1)

\* C4. Filter-then-aggregate: the grouped sums of the filtered table by a
\* dimension are the grouped sums of the table without the predicate on that
\* dimension, restricted to the keys the predicate keeps: the bar chart by
\* Año against the year slice, the pie by Producto against the product dice.
C4_FilterThenAggregate ==
    /\ (script = "act1" /\ Rendered("fig1") /\ widgets.time_level = "Año") =>
          LET T == Restrict(df.rows,
                     {r \in AllRows : /\ r["Producto"] \in widgets.selected_products
                                      /\ r["Región"] \in widgets.selected_regions})
          IN  Data("fig1") = Only(GroupSum(T, "Año"), widgets.selected_year)
    /\ (script = "act1" /\ Rendered("fig2")) =>
          LET T == Restrict(df.rows,
                     {r \in AllRows : /\ r["Año"] \in widgets.selected_year
                                      /\ r["Región"] \in widgets.selected_regions})
          IN  Data("fig2") = Only(GroupSum(T, "Producto"), widgets.selected_products)

\* The table has sales in two years and the slice keeps the group of one.
C4_Witness ==
    /\ script = "act1" /\ Rendered("fig1") /\ Rendered("fig2")
    /\ widgets.time_level = "Año"
    /\ Cardinality(unique(df, "Año")) = 2
    /\ Cardinality(DOMAIN Data("fig1")) = 1
    /\ DOMAIN Data("fig2") # {}

\* C5. Empty in_set: with no product or no region selected the filtered
\* table has no row and the filter raises nothing, whatever the year: the
\* KPI that follows it is rendered, with a total of 0, and every later view
\* of the filtered table is empty.
C5_EmptySelection ==
    ( /\ script = "act1" /\ Loaded
      /\ (widgets.selected_products = {} \/ widgets.selected_regions = {}) )
    =>  /\ Rendered("Ventas Totales")
        /\ Data("Ventas Totales") = Frac(0, 1)
        /\ Rendered("fig1") => DOMAIN Data("fig1") = {}
        /\ Rendered("ventas_filtradas") => DOMAIN Data("ventas_filtradas").rows = {}

\* No product is selected while rows match the year and the regions.
C5_Witness ==
    /\ script = "act1" /\ Loaded
    /\ widgets.selected_products = {}
    /\ \E r \in AllRows : r["Año"] \in widgets.selected_year
                          /\ r["Región"] \in widgets.selected_regions
    /\ Rendered("ventas_filtradas")

\* C6. Schema check at load: when the file lacks required columns, either
\* loader fails with a schema error naming exactly the missing columns, and
\* no table is returned.
C6_SchemaCheck ==
    (file.readable /\ file.spanish /\ required_cols \ file.cols # {} /\ shown # << >>) =>
        /\ shown = << SchemaError(IF script = "act1" THEN "load_csv_data" ELSE "load_data",
                                  required_cols \ file.cols) >>
        /\ ~Loaded

\* The load of the file fails.
LoadFails ==
    \/ ~file.readable
    \/ ~file.spanish
    \/ "Fecha" \notin file.cols
    \/ script = "act1" /\ file.cols # required_cols

\* C7. Halt on error: an error is the last element of a run, nothing is
\* rendered after it; a run on a file that cannot be loaded (unreadable, no
\* date column, no locale; for act1.py any missing column) renders the error
\* and nothing else; a run on a file that lacks a column ends with an error.
C7_HaltOnError ==
    /\ \A i \in 1..Len(shown) :
          shown[i].kind \in {"error", "exception"} => i = Len(shown)
    /\ (shown # << >> /\ LoadFails) =>
          /\ Len(shown) = 1
          /\ shown[1].kind = "error"
          /\ ~Loaded
    /\ (shown # << >> /\ file.cols # required_cols) => Halted(shown)

\* A run that rendered charts and then stopped on an error.
C7_Witness ==
    /\ Halted(shown)
    /\ \E i \in 1..Len(shown) : shown[i].kind = "chart"

\* The rows of the loaded table without the derived columns.
RawRows == RowImages(df.rows, [r \in DOMAIN df.rows |-> [c \in file.cols |-> r[c]]])

\* Sum of Ventas over the rows of the file that are in S.
FileVentas(S) == SumIn(file.rows, "Ventas", S)

\* C8. Non-destructive filtering: after any run the loaded table has the
\* columns and rows of the file (plus the derived columns), and what is
\* computed from the unfiltered table covers all its rows: the global
\* monthly totals of 5preguntas.py and the previous-year total behind the
\* growth KPI of act1.py.
C8_NonDestructive ==
    Loaded =>
        /\ file.cols \subseteq df.cols
        /\ RawRows = file.rows
        /\ (script = "5preguntas" /\ Rendered("fig")) =>
              Data("fig").all =
                 [m \in {month_name(r["Fecha"]) : r \in DOMAIN file.rows} |->
                    FileVentas({r \in DOMAIN file.rows : month_name(r["Fecha"]) = m})]
        /\ (script = "act1" /\ Rendered("Crecimiento Anual")) =>
              LET y == CHOOSE x \in widgets.selected_year : TRUE
                  prev == FileVentas({r \in DOMAIN file.rows : r["Fecha"].y = y - 1})
                  g == Data("Crecimiento Anual")
              IN  prev # 0 =>
                    g.num * prev = 100 * (Data("Ventas Totales").num - prev) * g.den

\* After a widget change the filtered view holds part of the rows only.
C8_Witness ==
    /\ script = "5preguntas" /\ Loaded /\ reruns > 0 /\ Rendered("fig")
    /\ Total(Data("fig").filtered) > 0
    /\ Total(Data("fig").filtered) < Total(Data("fig").all)

\* C9. Aggregation drops no row: the sums of the groups of every grouped
\* view of the filtered table add up to the Ventas Totales KPI, and every
\* group has a row.
C9_NoRowDropped ==
    (script = "act1" /\ Rendered("Ventas Totales")) =>
        /\ Rendered("fig1") =>
              /\ Total(Data("fig1")) = Data("Ventas Totales").num
              /\ \A k \in DOMAIN Data("fig1") :
                    \E r \in SelectedRows : r[widgets.time_level] = k
        /\ Rendered("fig2") =>
              /\ Total(Data("fig2")) = Data("Ventas Totales").num
              /\ \A k \in DOMAIN Data("fig2") :
                    \E r \in SelectedRows : r["Producto"] = k

\* C10. Annual growth: for a selected year the KPI is rendered and is a
\* number (no division by zero): 0 when the previous year's total over the
\* whole table is 0, ((filtered total / previous total) - 1) * 100 otherwise.
C10_Growth ==
    (script = "act1" /\ Loaded /\ widgets.selected_year # {}) =>
        LET y == CHOOSE x \in widgets.selected_year : TRUE
            prev == Ventas({r \in AllRows : r["Año"] = y - 1})
            total == Ventas(SelectedRows)
        IN  /\ Rendered("Crecimiento Anual")
            /\ LET g == Data("Crecimiento Anual")
               IN  /\ g.den > 0
                   /\ prev = 0 => g.num = 0
                   /\ prev # 0 => g.num * prev = 100 * (total - prev) * g.den

\* The previous year has no sale and the selected year has.
C10_Witness ==
    /\ script = "act1" /\ Loaded /\ widgets.selected_year # {}
    /\ Rendered("Crecimiento Anual")
    /\ Ventas(SelectedRows) > 0
    /\ LET y == CHOOSE x \in widgets.selected_year : TRUE
       IN  Ventas({r \in AllRows : r["Año"] = y - 1}) = 0

====
